---------------------------- MODULE Spec2Model ----------------------------
(* A model of the free-stock-images MCP server (src/src/server.py): the     *)
(* source registry, the API client, the result formatter, the tool          *)
(* dispatcher, the resource reader and the API status reporter.             *)
(*                                                                          *)
(* Text that the code takes apart or builds character by character (the     *)
(* query, URLs, resource URIs, credentials) is a sequence of one-character  *)
(* strings; text that is only copied around (names, descriptions, ids) is   *)
(* a TLA+ string.                                                           *)
EXTENDS Integers, Sequences, FiniteSets, TLC

VARIABLES
    env,          \* the process environment: variable name -> value (a partial function)
    op,           \* the handler that is running or has just finished ("none" when idle)
    args,         \* the arguments of the running handler
    pc,           \* "idle", "loop" (inside the per-source loop), "done", "raised"
    idx,          \* position of the per-source loop in the sources list
    results,      \* the blocks built so far / returned
    api_sources,  \* search_stock_images: ids answered through the API
    web_sources,  \* search_stock_images: ids answered by a web link
    fetches,      \* the make_api_request calls of the running handler, in order, each
                  \* with the GET it sent (if any), the response and the value returned
    exc           \* the exception that left the handler ("none" if none)

vars == <<env, op, args, pc, idx, results, api_sources, web_sources, fetches, exc>>

-----------------------------------------------------------------------------
(* Bounds of the model. *)

MaxSources == 2     \* longest explicit "sources" argument
MaxItems == 6       \* longest item list in an API payload
MaxQueryLen == 2    \* longest query in the web-link specification
MaxPieces == 3      \* number of pieces a resource URI is assembled from
MaxKeyLen == 10     \* longest credential in the status specification

-----------------------------------------------------------------------------
(* Python values. *)

None == "None"

Min(a, b) == IF a <= b THEN a ELSE b

RECURSIVE Concat(_)
Concat(ss) == IF ss = <<>> THEN <<>> ELSE Head(ss) \o Concat(Tail(ss))

Range(s) == {s[i] : i \in 1..Len(s)}

\* s[:n]
Prefix(s, n) == SubSeq(s, 1, Min(n, Len(s)))

\* s.startswith(p)
StartsWith(s, p) == Len(s) >= Len(p) /\ SubSeq(s, 1, Len(p)) = p

-----------------------------------------------------------------------------
(* The source registry. *)

SourceIds == <<"unsplash", "pexels", "pixabay", "freepik", "burst", "stockvault">>

STOCK_IMAGE_SOURCES ==
    [ unsplash |->
        [ name |-> "Unsplash",
          base_url |-> <<"h","t","t","p","s",":","/","/","u","n","s","p","l","a","s","h",
                         ".","c","o","m","/","s","/","p","h","o","t","o","s","/">>,
          api_url |-> "https://api.unsplash.com/search/photos",
          description |-> "Beautiful free photos & images",
          requires_api_key |-> "true",
          api_key_env |-> "UNSPLASH_ACCESS_KEY" ],
      pexels |->
        [ name |-> "Pexels",
          base_url |-> <<"h","t","t","p","s",":","/","/","w","w","w",".","p","e","x","e",
                         "l","s",".","c","o","m","/","s","e","a","r","c","h","/">>,
          api_url |-> "https://api.pexels.com/v1/search",
          description |-> "Free stock photos & royalty free images",
          requires_api_key |-> "true",
          api_key_env |-> "PEXELS_API_KEY" ],
      pixabay |->
        [ name |-> "Pixabay",
          base_url |-> <<"h","t","t","p","s",":","/","/","p","i","x","a","b","a","y",".",
                         "c","o","m","/","i","m","a","g","e","s","/","s","e","a","r","c",
                         "h","/">>,
          api_url |-> "https://pixabay.com/api/",
          description |-> "Stunning royalty-free images & royalty-free stock",
          requires_api_key |-> "true",
          api_key_env |-> "PIXABAY_API_KEY" ],
      freepik |->
        [ name |-> "Freepik",
          base_url |-> <<"h","t","t","p","s",":","/","/","w","w","w",".","f","r","e","e",
                         "p","i","k",".","c","o","m","/","s","e","a","r","c","h","?","f",
                         "o","r","m","a","t","=","s","e","a","r","c","h","&","q","u","e",
                         "r","y","=">>,
          api_url |-> None,
          description |-> "Free vectors, stock photos, PSD and icons",
          requires_api_key |-> "false",
          api_key_env |-> None ],
      burst |->
        [ name |-> "Burst by Shopify",
          base_url |-> <<"h","t","t","p","s",":","/","/","b","u","r","s","t",".","s","h",
                         "o","p","i","f","y",".","c","o","m","/","p","h","o","t","o","s",
                         "/","s","e","a","r","c","h","?","q","=">>,
          api_url |-> None,
          description |-> "Free stock photos for commercial use",
          requires_api_key |-> "false",
          api_key_env |-> None ],
      stockvault |->
        [ name |-> "StockVault",
          base_url |-> <<"h","t","t","p","s",":","/","/","w","w","w",".","s","t","o","c",
                         "k","v","a","u","l","t",".","n","e","t","/","s","e","a","r","c",
                         "h","/","?","q","=">>,
          api_url |-> None,
          description |-> "Free graphics and photos",
          requires_api_key |-> "false",
          api_key_env |-> None ] ]

\* source_id in STOCK_IMAGE_SOURCES
Registered(source_id) == source_id \in DOMAIN STOCK_IMAGE_SOURCES

\* The characters of a registry key.
IdChars(source_id) ==
    CASE source_id = "unsplash"   -> <<"u","n","s","p","l","a","s","h">>
      [] source_id = "pexels"     -> <<"p","e","x","e","l","s">>
      [] source_id = "pixabay"    -> <<"p","i","x","a","b","a","y">>
      [] source_id = "freepik"    -> <<"f","r","e","e","p","i","k">>
      [] source_id = "burst"      -> <<"b","u","r","s","t">>
      [] source_id = "stockvault" -> <<"s","t","o","c","k","v","a","u","l","t">>

-----------------------------------------------------------------------------
(* The environment. *)

EnvVars == {"UNSPLASH_ACCESS_KEY", "PEXELS_API_KEY", "PIXABAY_API_KEY"}

\* os.getenv(name) is not None
EnvSet(name) == name \in DOMAIN env

\* a check that takes a variable set to the empty string for a credential
NoKey_unset_only(name) == ~EnvSet(name)

\* "not os.getenv(name)": the variable is unset, or set to the empty string
NoKey(name) == ~EnvSet(name) \/ env[name] = <<>>

\* every environment that gives some of the variables a value from keys
Environments(keys) == UNION {[D -> keys] : D \in SUBSET EnvVars}

-----------------------------------------------------------------------------
(* urllib.parse.quote(string) with its default safe="/". *)

Letters == {"a","b","c","d","e","f","g","h","i","j","k","l","m",
            "n","o","p","q","r","s","t","u","v","w","x","y","z"}

Digits == {"0","1","2","3","4","5","6","7","8","9"}

\* the characters quote() never escapes
AlwaysSafe == Letters \cup Digits \cup {"_", ".", "-", "~"}

\* the URI reserved characters of the model's alphabet
Reserved == {"/", "?", "&", "#", "=", ":", "+"}

\* "%XX" of an ASCII character
PctCode(c) ==
    CASE c = " " -> <<"%","2","0">>
      [] c = "/" -> <<"%","2","F">>
      [] c = "?" -> <<"%","3","F">>
      [] c = "&" -> <<"%","2","6">>
      [] c = "#" -> <<"%","2","3">>
      [] c = "=" -> <<"%","3","D">>
      [] c = ":" -> <<"%","3","A">>
      [] c = "+" -> <<"%","2","B">>
      [] c = "%" -> <<"%","2","5">>

QuoteChar(c, safe) == IF c \in AlwaysSafe \cup safe THEN <<c>> ELSE PctCode(c)

quote_safe(string, safe) ==
    Concat([i \in 1..Len(string) |-> QuoteChar(string[i], safe)])

quote(string) == quote_safe(string, {"/"})

-----------------------------------------------------------------------------
(* API payloads: the JSON value response.json() returns.                    *)
(*   kind "None"    no payload (make_api_request returned None)             *)
(*   kind "falsy"   a JSON value Python treats as false: {}, [], null, 0,   *)
(*                  "" or false                                             *)
(*   kind "nonobj"  a true value that is no object: a non-empty array or    *)
(*                  string, a number, true                                  *)
(*   kind "nolist"  a non-empty object without the source's list field      *)
(*   kind "notlist" an object whose list field is null or a number          *)
(*   kind "list"    an object whose list field is the array "items"         *)
(* An item is [shape, id]; id tells the items of one payload apart.         *)
(*   "ok"         an object with every field the formatter reads            *)
(*   "noopt"      an object lacking only the fields read with .get()        *)
(*   "missing"    an object lacking a field read with [...]                 *)
(*   "nonobj"     not an object: an array, a string, a number, null         *)
(*   "nullnested" an object with every key, whose nested objects (urls,     *)
(*                links, user, src) are null                                *)

ItemShapes == {"ok", "noopt", "missing", "nonobj", "nullnested"}

NonePayload == [kind |-> "None", items |-> <<>>]

Payload(kind) == [kind |-> kind, items |-> <<>>]

ListPayload(items) == [kind |-> "list", items |-> items]

\* the items a list of shapes stands for, identified by position
Items(shapes) == [i \in 1..Len(shapes) |-> [shape |-> shapes[i], id |-> i]]

\* "if api_data:"
Truthy(api_data) == api_data.kind \notin {"None", "falsy"}

-----------------------------------------------------------------------------
(* make_api_request. The network's answer is an input of the model:         *)
(*   "RequestException"  connection failure, timeout, or a status that      *)
(*                       raise_for_status() rejects                         *)
(*   "JSONDecodeError"   a body that does not parse                         *)
(*   "json"              a parsed body                                      *)

RequestTimeout == 10

\* the per_page caps of lines 112-123
PerPageCap(source_id) ==
    CASE source_id = "unsplash" -> 30
      [] source_id = "pexels"   -> 80
      [] source_id = "pixabay"  -> 200
      [] OTHER                  -> 20

\* lines 89-107: which early return is taken, "send" if none
api_precheck(source_id) ==
    IF ~Registered(source_id) THEN "no_source"
    ELSE LET source == STOCK_IMAGE_SOURCES[source_id] IN
         IF source.api_url = None THEN "no_api_url"
         ELSE IF source.requires_api_key = "true"
              THEN IF source.api_key_env = None THEN "no_api_key_env"
                   ELSE IF NoKey(source.api_key_env) THEN "no_api_key"
                   ELSE "send"
              ELSE "send"

\* lines 110-126: the GET that is sent
api_request(source_id, query, limit) ==
    LET source == STOCK_IMAGE_SOURCES[source_id]
        keyed == source.requires_api_key = "true"
        api_key == IF keyed THEN env[source.api_key_env] ELSE <<>>
        branch == IF keyed /\ api_key # <<>> /\ source_id \in {"unsplash", "pexels", "pixabay"}
                  THEN source_id ELSE "default"
    IN [ source_id |-> source_id,
         url |-> source.api_url,
         authorization |-> CASE branch = "unsplash" -> [scheme |-> "Client-ID ", key |-> api_key]
                             [] branch = "pexels"   -> [scheme |-> "", key |-> api_key]
                             [] OTHER               -> [scheme |-> "", key |-> <<>>],
         query_param |-> IF branch \in {"unsplash", "pexels"} THEN "query" ELSE "q",
         query |-> query,
         key_param |-> IF branch = "pixabay" THEN api_key ELSE <<>>,
         per_page |-> Min(limit, IF branch = "default" THEN 20 ELSE PerPageCap(source_id)),
         timeout |-> RequestTimeout ]

\* lines 127-136: what the response becomes
api_response_data(response) ==
    IF response.kind = "json" THEN response.body ELSE NonePayload

NoResponse == [kind |-> "not_sent", body |-> NonePayload]

\* the whole call: the GETs it sent, the response it got, the value it returns
make_api_request(source_id, query, limit, response) ==
    IF api_precheck(source_id) = "send"
    THEN [ source_id |-> source_id,
           sent |-> <<api_request(source_id, query, limit)>>,
           response |-> response,
           data |-> api_response_data(response) ]
    ELSE [ source_id |-> source_id,
           sent |-> <<>>,
           response |-> NoResponse,
           data |-> NonePayload ]

-----------------------------------------------------------------------------
(* format_api_results. *)

DisplayCap == 5

\* the list field each source's branch reads
ListField(source_id) ==
    CASE source_id = "unsplash" -> "results"
      [] source_id = "pexels"   -> "photos"
      [] source_id = "pixabay"  -> "hits"
      [] OTHER                  -> None

\* What rendering one item does (lines 158-162, 167-171, 176-182): "render",
\* "placeholder" (rendered with 'Untitled' / 'Untagged' / 'N/A'), or the
\* exception it raises.
ItemOutcome(source_id, item) ==
    CASE source_id = "unsplash" ->
           ( CASE item.shape = "ok"         -> "render"
               [] item.shape = "noopt"      -> "placeholder"
               [] item.shape = "missing"    -> "KeyError"
               [] item.shape = "nonobj"     -> "AttributeError"
               [] item.shape = "nullnested" -> "TypeError" )
      [] source_id = "pexels" ->
           ( CASE item.shape = "ok"         -> "render"
               [] item.shape = "noopt"      -> "render"
               [] item.shape = "missing"    -> "KeyError"
               [] item.shape = "nonobj"     -> "TypeError"
               [] item.shape = "nullnested" -> "TypeError" )
      [] source_id = "pixabay" ->
           ( CASE item.shape = "ok"         -> "render"
               [] item.shape = "noopt"      -> "placeholder"
               [] item.shape = "missing"    -> "KeyError"
               [] item.shape = "nonobj"     -> "AttributeError"
               [] item.shape = "nullnested" -> "render" )

\* the text of one rendered item: its number, the item, how its title was found
Rendered(i, item, outcome) ==
    [n |-> i, id |-> item.id, title |-> IF outcome = "placeholder" THEN "placeholder" ELSE "field"]

\* the for loop over items[:5], from item i on, the entries written so far in acc.
\* An item whose lookup raises stops the loop: cut is its number, and the lines of
\* its entry written before the failing lookup (its "i. title" line, for one) stay
\* in the text.
RECURSIVE RenderItems(_, _, _, _)
RenderItems(source_id, items, i, acc) ==
    IF i > Len(items) THEN [items |-> acc, stop |-> "none", cut |-> 0]
    ELSE LET outcome == ItemOutcome(source_id, items[i]) IN
         IF outcome \in {"render", "placeholder"}
         THEN RenderItems(source_id, items, i + 1, Append(acc, Rendered(i, items[i], outcome)))
         ELSE [items |-> acc, stop |-> outcome, cut |-> i]

\* a try body that renders every item of the list (no [:5])
FormatBody_uncapped(source_id, api_data) ==
    IF ListField(source_id) = None THEN [items |-> <<>>, stop |-> "none", cut |-> 0]
    ELSE CASE api_data.kind = "nonobj"  -> [items |-> <<>>, stop |-> "AttributeError", cut |-> 0]
           [] api_data.kind = "notlist" -> [items |-> <<>>, stop |-> "TypeError", cut |-> 0]
           [] api_data.kind = "list"    -> RenderItems(source_id, api_data.items, 1, <<>>)
           [] OTHER                     -> [items |-> <<>>, stop |-> "none", cut |-> 0]

\* the try body, lines 155-182
FormatBody(source_id, api_data) ==
    IF ListField(source_id) = None THEN [items |-> <<>>, stop |-> "none", cut |-> 0]
    ELSE CASE api_data.kind = "nonobj"  -> [items |-> <<>>, stop |-> "AttributeError", cut |-> 0]
           [] api_data.kind = "notlist" -> [items |-> <<>>, stop |-> "TypeError", cut |-> 0]
           [] api_data.kind = "list"    ->
                RenderItems(source_id, Prefix(api_data.items, DisplayCap), 1, <<>>)
           [] api_data.kind = "nolist"  -> [items |-> <<>>, stop |-> "none", cut |-> 0]
           [] OTHER                     -> [items |-> <<>>, stop |-> "none", cut |-> 0]

\* the exceptions the except clause of line 184 catches
Caught == {"KeyError"}

\* [raised, block]: the exception that leaves the function ("none" if it returns) and
\* the text it returns
format_api_results(source_id, api_data, query) ==
    LET source == STOCK_IMAGE_SOURCES[source_id]
        body == FormatBody(source_id, api_data)
    IN IF body.stop \in {"none"} \cup Caught
       THEN [ raised |-> "none",
              block |-> [ kind |-> "api", source_id |-> source_id, name |-> source.name,
                          description |-> source.description, items |-> body.items,
                          cut |-> body.cut, error |-> body.stop ] ]
       ELSE [ raised |-> body.stop, block |-> <<>> ]

-----------------------------------------------------------------------------
(* search_stock_images. *)

DefaultLimit == 5

\* arguments.get(...) with the defaults of lines 341-343
ArgQuery(a) == IF "query" \in a.given THEN a.query ELSE <<>>

ArgSources(a) == IF "sources" \in a.given THEN a.sources ELSE SourceIds

ArgLimit(a) == IF "limit" \in a.given THEN a.limit ELSE DefaultLimit

EmptyArguments == [none |-> FALSE, given |-> {}, query |-> <<>>, sources |-> <<>>, limit |-> 0]

NoneArguments == [none |-> TRUE, given |-> {}, query |-> <<>>, sources |-> <<>>, limit |-> 0]

\* "arguments or {}" of line 320
OrEmpty(arguments) == IF arguments.none THEN EmptyArguments ELSE arguments

ErrorBlock == [kind |-> "error", text |-> "Error: Search query is required"]

HeaderBlock(query) == [kind |-> "header", query |-> query]

\* lines 373-374
search_url(source_id, query) == STOCK_IMAGE_SOURCES[source_id].base_url \o quote(query)

\* lines 376-384
web_link_block(source_id, query) ==
    LET source == STOCK_IMAGE_SOURCES[source_id] IN
    [ kind |-> "web", source_id |-> source_id, name |-> source.name,
      description |-> source.description, search_url |-> search_url(source_id, query),
      link_label |-> query, link_url |-> search_url(source_id, query) ]

\* lines 386-399
summary_block(query, sources, api, web) ==
    [ kind |-> "summary", query |-> query, total |-> Len(sources),
      api_line |-> IF api # <<>> THEN <<[ids |-> api, count |-> Len(api)]>> ELSE <<>>,
      web_line |-> IF web # <<>> THEN <<[ids |-> web, count |-> Len(web)]>> ELSE <<>> ]

\* a loop body that puts each new block right after the header instead of at the end
loop_body_insert_first(st, source_id, query, fetch) ==
    LET block == IF Truthy(fetch.data)
                 THEN format_api_results(source_id, fetch.data, query).block
                 ELSE web_link_block(source_id, query)
    IN [ results |-> <<Head(st.results), block>> \o Tail(st.results),
         api_sources |-> IF Truthy(fetch.data) THEN Append(st.api_sources, source_id)
                         ELSE st.api_sources,
         web_sources |-> IF Truthy(fetch.data) THEN st.web_sources
                         ELSE Append(st.web_sources, source_id),
         raised |-> IF Truthy(fetch.data)
                    THEN format_api_results(source_id, fetch.data, query).raised ELSE "none" ]

\* One pass of the loop body, lines 357-384, for a registered source: st is
\* [results, api_sources, web_sources], the result adds the exception raised.
loop_body(st, source_id, query, fetch) ==
    IF Truthy(fetch.data)
    THEN LET formatted == format_api_results(source_id, fetch.data, query) IN
         [ results |-> IF formatted.raised = "none"
                       THEN Append(st.results, formatted.block) ELSE st.results,
           api_sources |-> Append(st.api_sources, source_id),
           web_sources |-> st.web_sources,
           raised |-> formatted.raised ]
    ELSE [ results |-> Append(st.results, web_link_block(source_id, query)),
           api_sources |-> st.api_sources,
           web_sources |-> Append(st.web_sources, source_id),
           raised |-> "none" ]

\* the state the loop works on
LoopState == [results |-> results, api_sources |-> api_sources, web_sources |-> web_sources]

\* After one pass that left st: go on with the next source, or, past the last one,
\* append the summary and return; an exception leaves the handler at once.
Advance(st, raised) ==
    LET a == OrEmpty(args) IN
    /\ api_sources' = st.api_sources
    /\ web_sources' = st.web_sources
    /\ exc' = raised
    /\ IF raised # "none"
       THEN /\ pc' = "raised"
            /\ results' = <<>>
            /\ idx' = idx
       ELSE /\ idx' = idx + 1
            /\ IF idx + 1 > Len(ArgSources(a))
               THEN /\ pc' = "done"
                    /\ results' = Append(st.results,
                                         summary_block(ArgQuery(a), ArgSources(a),
                                                       st.api_sources, st.web_sources))
               ELSE /\ pc' = "loop"
                    /\ results' = st.results

-----------------------------------------------------------------------------
(* The inputs of the server specification. *)

Sunset == <<"s","u","n","s","e","t">>

RedCar == <<"r","e","d"," ","c","a","r">>

Queries == {<<>>, Sunset, RedCar}

\* the ids an explicit sources list is made of: registered ones and an unknown one
RequestIds == {"unsplash", "pexels", "freepik", "nosuch"}

SeqsUpTo(S, n) == UNION {[1..k -> S] : k \in 0..n}

SourceLists == SeqsUpTo(RequestIds, MaxSources)

\* explicit limits: one above every per_page cap and one that is not positive (line 343
\* takes whatever the caller passes); the default lies between them, below every cap
Limits == {0, 250}

Arguments ==
    { [none |-> FALSE, given |-> g,
       query |-> q, sources |-> s, limit |-> l] :
         g \in SUBSET {"query", "sources", "limit"},
         q \in Queries, s \in SourceLists, l \in Limits \cup {0} }

\* an argument that is not given carries no value
WellFormedArguments ==
    { a \in Arguments :
        /\ ("query" \notin a.given => a.query = <<>>)
        /\ ("sources" \notin a.given => a.sources = <<>>)
        /\ ("limit" \notin a.given => a.limit = 0) }

Repeat(x, n) == [i \in 1..n |-> x]

\* item lists of the payloads a search may receive; the last one has its bad item
\* after the items that are displayed
SearchLists ==
    { <<>>, <<"ok">>, <<"missing">>, <<"nonobj">>, <<"nullnested">>,
      Repeat("ok", DisplayCap) \o <<"missing">> }

SearchPayloads ==
    {Payload(k) : k \in {"falsy", "nonobj", "notlist"}}
      \cup {ListPayload(Items(l)) : l \in SearchLists}

Failures == {"RequestException", "JSONDecodeError"}

Responses(payloads) ==
    {[kind |-> f, body |-> NonePayload] : f \in Failures}
      \cup {[kind |-> "json", body |-> p] : p \in payloads}

SecretKey == <<"a","b","c","d","e","f","g","h","i","j","k","l">>

\* the values a credential variable has in the server specification
ServerKeys == {<<>>, SecretKey}

-----------------------------------------------------------------------------
(* The handlers. *)

Idle ==
    /\ op = "none"
    /\ args = EmptyArguments
    /\ pc = "idle"
    /\ idx = 0
    /\ results = <<>>
    /\ api_sources = <<>>
    /\ web_sources = <<>>
    /\ fetches = <<>>
    /\ exc = "none"

\* a validation that lets the empty string through ("query is None")
query_missing_only_none(query) == FALSE

\* "not query" of line 345
query_missing(query) == query = <<>>

\* search_stock_images(arguments or {}), called under name, up to the loop
CallSearch(name, arguments) ==
    LET a == OrEmpty(arguments) IN
    /\ pc = "idle"
    /\ op' = name
    /\ args' = arguments
    /\ fetches' = <<>>
    /\ api_sources' = <<>>
    /\ web_sources' = <<>>
    /\ exc' = "none"
    /\ IF query_missing(ArgQuery(a))
       THEN /\ results' = <<ErrorBlock>>
            /\ pc' = "done"
            /\ idx' = 0
       ELSE IF ArgSources(a) = <<>>
       THEN /\ results' = <<HeaderBlock(ArgQuery(a)),
                            summary_block(ArgQuery(a), ArgSources(a), <<>>, <<>>)>>
            /\ pc' = "done"
            /\ idx' = 1
       ELSE /\ results' = <<HeaderBlock(ArgQuery(a))>>
            /\ pc' = "loop"
            /\ idx' = 1
    /\ UNCHANGED env

\* the source the loop is at
Current == ArgSources(OrEmpty(args))[idx]

\* lines 357-358: an id that is not registered is passed over
SearchSkip ==
    /\ pc = "loop"
    /\ ~Registered(Current)
    /\ Advance(LoopState, "none")
    /\ UNCHANGED <<env, op, args, fetches>>

\* a pass of the loop in which make_api_request returns before any request
SearchNoRequest ==
    /\ pc = "loop"
    /\ Registered(Current)
    /\ api_precheck(Current) # "send"
    /\ LET a == OrEmpty(args)
           fetch == make_api_request(Current, ArgQuery(a), ArgLimit(a), NoResponse)
           st == loop_body(LoopState, Current, ArgQuery(a), fetch)
       IN /\ fetches' = Append(fetches, fetch)
          /\ Advance(st, st.raised)
    /\ UNCHANGED <<env, op, args>>

\* a pass of the loop in which make_api_request sends its GET and gets response
SearchFetch(response) ==
    /\ pc = "loop"
    /\ Registered(Current)
    /\ api_precheck(Current) = "send"
    /\ LET a == OrEmpty(args)
           fetch == make_api_request(Current, ArgQuery(a), ArgLimit(a), response)
           st == loop_body(LoopState, Current, ArgQuery(a), fetch)
       IN /\ fetches' = Append(fetches, fetch)
          /\ Advance(st, st.raised)
    /\ UNCHANGED <<env, op, args>>

\* the response or the error goes back to the client; nothing is kept
Return ==
    /\ pc \in {"done", "raised"}
    /\ op' = "none"
    /\ args' = EmptyArguments
    /\ pc' = "idle"
    /\ idx' = 0
    /\ results' = <<>>
    /\ api_sources' = <<>>
    /\ web_sources' = <<>>
    /\ fetches' = <<>>
    /\ exc' = "none"
    /\ UNCHANGED env

-----------------------------------------------------------------------------
(* handle_call_tool: the dispatcher. *)

ToolNames == {"search_stock_images", "get_stock_image_sources", "check_api_status"}

\* the names a client may send: the tools and two names that are no tool
CallNames == ToolNames \cup {"no_such_tool", "search"}

\* a dispatcher whose last branch is taken by every other name
handle_call_tool_fallthrough(name) ==
    CASE name = "search_stock_images"     -> [target |-> "search_stock_images", raised |-> "none"]
      [] name = "get_stock_image_sources" -> [target |-> "get_stock_image_sources", raised |-> "none"]
      [] OTHER                            -> [target |-> "check_api_status", raised |-> "none"]

\* lines 319-329: the handler a name is routed to, or the exception raised
handle_call_tool(name) ==
    CASE name = "search_stock_images"     -> [target |-> "search_stock_images", raised |-> "none"]
      [] name = "get_stock_image_sources" -> [target |-> "get_stock_image_sources", raised |-> "none"]
      [] name = "check_api_status"        -> [target |-> "check_api_status", raised |-> "none"]
      [] OTHER                            -> [target |-> "none", raised |-> "ValueError"]

\* lines 412-427
get_stock_image_sources ==
    [ kind |-> "sources",
      entries |-> [i \in 1..Len(SourceIds) |->
                     [ name |-> STOCK_IMAGE_SOURCES[SourceIds[i]].name,
                       id |-> SourceIds[i],
                       description |-> STOCK_IMAGE_SOURCES[SourceIds[i]].description,
                       base_url |-> STOCK_IMAGE_SOURCES[SourceIds[i]].base_url ]],
      total |-> Len(SourceIds) ]

MaskLen == 8

Dots == <<".", ".", ".">>

Stars == <<"*", "*", "*">>

\* a mask without the length test
mask_key_always_prefix(api_key) == Prefix(api_key, MaskLen) \o Dots

\* line 459
mask_key(api_key) == IF Len(api_key) > MaskLen THEN Prefix(api_key, MaskLen) \o Dots ELSE Stars

\* lines 439-470: the section of one source
status_entry(source_id) ==
    LET source == STOCK_IMAGE_SOURCES[source_id]
        base == [ source_id |-> source_id, name |-> source.name, endpoint |-> source.api_url,
                  key_env |-> source.api_key_env, key |-> "no_api", masked_key |-> <<>> ]
    IN IF source.api_url = None THEN base
       ELSE IF source.requires_api_key # "true" THEN [base EXCEPT !.key = "not_required"]
       ELSE IF source.api_key_env = None THEN [base EXCEPT !.key = "env_not_configured"]
       ELSE IF NoKey(source.api_key_env) THEN [base EXCEPT !.key = "not_found"]
       ELSE [base EXCEPT !.key = "configured",
                         !.masked_key = mask_key(env[source.api_key_env])]

\* lines 477-483: the sources listed in the configuration instructions
status_instructions ==
    SelectSeq(SourceIds, LAMBDA id : /\ STOCK_IMAGE_SOURCES[id].requires_api_key = "true"
                                      /\ STOCK_IMAGE_SOURCES[id].api_key_env # None)

\* lines 436-492
check_api_status ==
    [ kind |-> "status",
      entries |-> [i \in 1..Len(SourceIds) |-> status_entry(SourceIds[i])],
      instructions |-> status_instructions ]

\* a handler that runs to its end in one step
Finish(name, arguments, blocks, raised) ==
    /\ pc = "idle"
    /\ op' = name
    /\ args' = arguments
    /\ pc' = IF raised = "none" THEN "done" ELSE "raised"
    /\ idx' = 0
    /\ results' = blocks
    /\ api_sources' = <<>>
    /\ web_sources' = <<>>
    /\ fetches' = <<>>
    /\ exc' = raised
    /\ UNCHANGED env

\* lines 319-320
CallSearchTool(name, arguments) ==
    /\ handle_call_tool(name).target = "search_stock_images"
    /\ CallSearch(name, arguments)

\* lines 322-323
CallGetSources(name, arguments) ==
    /\ handle_call_tool(name).target = "get_stock_image_sources"
    /\ Finish(name, arguments, <<get_stock_image_sources>>, "none")

\* lines 325-326
CallCheckStatus(name, arguments) ==
    /\ handle_call_tool(name).target = "check_api_status"
    /\ Finish(name, arguments, <<check_api_status>>, "none")

\* lines 328-329: a name that is routed to no handler
CallOther(name, arguments) ==
    /\ handle_call_tool(name).target = "none"
    /\ Finish(name, arguments, <<>>, handle_call_tool(name).raised)

-----------------------------------------------------------------------------
(* handle_read_resource. *)

UriScheme == <<"s","t","o","c","k","-","i","m","a","g","e","s",":","/","/">>

\* str.replace(old, new): every occurrence of old, found from the left, none overlapping
RECURSIVE Replace(_, _, _)
Replace(s, old, new) ==
    IF s = <<>> THEN <<>>
    ELSE IF StartsWith(s, old) THEN new \o Replace(SubSeq(s, Len(old) + 1, Len(s)), old, new)
    ELSE <<Head(s)>> \o Replace(Tail(s), old, new)

\* line 228
uri_source_id(uri) == Replace(uri, UriScheme, <<>>)

\* the registered ids spelt chars ("source_id in STOCK_IMAGE_SOURCES" on a string)
IdsSpelt(chars) == {id \in DOMAIN STOCK_IMAGE_SOURCES : IdChars(id) = chars}

\* lines 225-242: [raised, message, page]
handle_read_resource(uri) ==
    IF ~StartsWith(uri, UriScheme)
    THEN [raised |-> "ValueError", message |-> "Unknown resource", page |-> <<>>]
    ELSE IF IdsSpelt(uri_source_id(uri)) = {}
    THEN [raised |-> "ValueError", message |-> "Unknown stock image source", page |-> <<>>]
    ELSE LET id == CHOOSE x \in IdsSpelt(uri_source_id(uri)) : TRUE
             source == STOCK_IMAGE_SOURCES[id]
         IN [ raised |-> "none", message |-> "",
              page |-> <<[ kind |-> "page", source_id |-> id, name |-> source.name,
                           description |-> source.description,
                           base_url |-> source.base_url ]>> ]

ReadResource(uri) ==
    LET r == handle_read_resource(uri) IN
    Finish("handle_read_resource", [uri |-> uri], r.page, r.raised)

\* the pieces the URIs of the model are assembled from
UriPieces ==
    { UriScheme, IdChars("unsplash"), IdChars("pexels"), <<"u","n","s">>,
      <<"p","l","a","s","h">>, <<"h","t","t","p",":","/","/">>, <<"/">> }

Uris == {Concat(ps) : ps \in SeqsUpTo(UriPieces, MaxPieces)}

-----------------------------------------------------------------------------
(* The formatter and the web link on their own. *)

\* the item lists with at most two items that are not "ok"
FormatLists ==
    { l \in SeqsUpTo(ItemShapes, MaxItems) : Cardinality({i \in 1..Len(l) : l[i] # "ok"}) <= 2 }

\* the payloads format_api_results is called with: line 365 lets only true values through
FormatPayloads ==
    {Payload(k) : k \in {"nonobj", "nolist", "notlist"}}
      \cup {ListPayload(Items(l)) : l \in FormatLists}

ApiSourceIds == {id \in DOMAIN STOCK_IMAGE_SOURCES : STOCK_IMAGE_SOURCES[id].api_url # None}

Format(source_id, api_data, query) ==
    LET f == format_api_results(source_id, api_data, query) IN
    Finish("format_api_results", [source_id |-> source_id, api_data |-> api_data, query |-> query],
           IF f.raised = "none" THEN <<f.block>> ELSE <<>>, f.raised)

QueryChars == {"a", "~", " ", "/", "?", "&", "#", "=", "%"}

WebQueries == SeqsUpTo(QueryChars, MaxQueryLen)

WebLink(source_id, query) ==
    Finish("web_link", [source_id |-> source_id, query |-> query],
           <<web_link_block(source_id, query)>>, "none")

\* credentials: the beginnings of two secrets that agree on their first MaskLen characters
Secrets == {SecretKey, Prefix(SecretKey, MaskLen) \o <<"x","y","z","w">>}

StatusKeys == {Prefix(k, n) : k \in Secrets, n \in 0..MaxKeyLen}

Status == Finish("check_api_status", EmptyArguments, <<check_api_status>>, "none")

-----------------------------------------------------------------------------
(* The specifications. *)

\* the server: the tool dispatcher and the search loop
Init ==
    /\ env \in Environments(ServerKeys)
    /\ Idle

\* the arguments a search is called with: a dictionary, or None
SearchArguments == WellFormedArguments \cup {NoneArguments}

\* the answers of the network to a search's request
SearchResponses == Responses(SearchPayloads)

\* a call is taken only when no call is in progress (the guard of CallSearch and of
\* Finish, stated before the inputs are drawn)
Next ==
    \/ /\ pc = "idle"
       /\ \E name \in CallNames, arguments \in SearchArguments :
             CallSearchTool(name, arguments)
    \/ \E name \in CallNames, arguments \in {EmptyArguments, NoneArguments} :
          CallGetSources(name, arguments)
    \/ \E name \in CallNames, arguments \in {EmptyArguments, NoneArguments} :
          CallCheckStatus(name, arguments)
    \/ \E name \in CallNames, arguments \in {EmptyArguments, NoneArguments} :
          CallOther(name, arguments)
    \/ SearchSkip
    \/ SearchNoRequest
    \/ \E response \in SearchResponses : SearchFetch(response)
    \/ Return

Spec == Init /\ [][Next]_vars

\* the resource reader on every URI of the model
InitBare ==
    /\ env = <<>>
    /\ Idle

NextResource ==
    \/ \E uri \in Uris : ReadResource(uri)
    \/ Return

SpecResource == InitBare /\ [][NextResource]_vars

\* the formatter on every payload of the model
NextFormat ==
    \/ \E source_id \in ApiSourceIds, api_data \in FormatPayloads :
          Format(source_id, api_data, Sunset)
    \/ Return

SpecFormat == InitBare /\ [][NextFormat]_vars

\* the web link of every source for every query of the model
NextWebLink ==
    \/ \E source_id \in DOMAIN STOCK_IMAGE_SOURCES, query \in WebQueries :
          WebLink(source_id, query)
    \/ Return

SpecWebLink == InitBare /\ [][NextWebLink]_vars

\* the status report under every environment of the model
InitStatus ==
    /\ env \in Environments(StatusKeys)
    /\ Idle

NextStatus ==
    \/ Status
    \/ Return

SpecStatus == InitStatus /\ [][NextStatus]_vars

-----------------------------------------------------------------------------
(* Properties. *)

InSearch == op = "search_stock_images"

SearchArgs == OrEmpty(args)

SearchQuery == ArgQuery(SearchArgs)

\* the GET requests the running handler has sent
SentRequests == Concat([i \in 1..Len(fetches) |-> fetches[i].sent])

\* the requested sources that are registered, in the order requested
WantedSources == SelectSeq(ArgSources(SearchArgs), Registered)

\* the API result of a pass is unavailable: nothing was sent (no endpoint, no
\* credential), or the request failed or its body did not parse
Unavailable(fetch) == fetch.sent = <<>> \/ fetch.response.kind \in Failures

\* C1: a search whose query is missing or empty returns exactly the error block and
\* has sent no HTTP request (it has not even called make_api_request), whatever
\* sources and limit it was given.
C1_EmptyQueryGivesErrorBlock ==
    (InSearch /\ SearchQuery = <<>>) =>
        /\ pc = "done"
        /\ exc = "none"
        /\ results = <<ErrorBlock>>
        /\ fetches = <<>>
        /\ SentRequests = <<>>

\* C1: an explicitly empty query with two API sources whose credentials are set
C1_Witness ==
    /\ InSearch
    /\ pc = "done"
    /\ args.given = {"query", "sources", "limit"}
    /\ args.query = <<>>
    /\ args.sources = <<"unsplash", "pexels">>
    /\ ~NoKey("UNSPLASH_ACCESS_KEY")
    /\ ~NoKey("PEXELS_API_KEY")

\* C2: in the result of a search with a non-empty query, the blocks between the
\* header and the summary are one per requested registered source, in the order
\* requested (the registry's order when sources is omitted); unknown ids leave no
\* block.
C2_BlocksFollowRequestedSources ==
    (InSearch /\ pc = "done" /\ SearchQuery # <<>>) =>
        /\ Len(results) = Len(WantedSources) + 2
        /\ results[1] = HeaderBlock(SearchQuery)
        /\ results[Len(results)].kind = "summary"
        /\ \A i \in 1..Len(WantedSources) :
              /\ results[i + 1].kind \in {"api", "web"}
              /\ results[i + 1].source_id = WantedSources[i]

\* C2: a finished search over an unknown id followed by a registered one
C2_Witness ==
    /\ InSearch
    /\ pc = "done"
    /\ SearchQuery # <<>>
    /\ "sources" \in args.given
    /\ args.sources = <<"nosuch", "pexels">>
    /\ Len(results) = 3

\* no id is requested twice
DistinctSources ==
    \A i, j \in 1..Len(ArgSources(SearchArgs)) :
        ArgSources(SearchArgs)[i] = ArgSources(SearchArgs)[j] => i = j

\* C3: in a search (over distinct sources) that has met a source whose API result
\* is unavailable, the call has not raised and every such source has its web-link
\* block at its position.
C3_UnavailableGivesWebLinkNoRaise ==
    (InSearch /\ DistinctSources /\ \E i \in 1..Len(fetches) : Unavailable(fetches[i])) =>
        /\ pc # "raised"
        /\ exc = "none"
        /\ \A i \in 1..Len(fetches) :
              Unavailable(fetches[i]) =>
                  results[i + 1] = web_link_block(fetches[i].source_id, SearchQuery)

\* the registry entry and the environment tell that no request may be sent for a source
NoEndpointOrNoCredential(source_id) ==
    LET source == STOCK_IMAGE_SOURCES[source_id] IN
    \/ source.api_url = None
    \/ /\ source.requires_api_key = "true"
       /\ \/ source.api_key_env \notin DOMAIN env
          \/ env[source.api_key_env] = <<>>

\* C4: make_api_request sends nothing and returns None for a source without api_url
\* and for a source whose credential variable is unset or empty, whatever the query
\* and the limit.
C4_NoRequestWithoutEndpointOrKey ==
    \A i \in 1..Len(fetches) :
        NoEndpointOrNoCredential(fetches[i].source_id) =>
            /\ fetches[i].sent = <<>>
            /\ fetches[i].data = NonePayload

\* C4: a search that has passed a source without endpoint and a source whose
\* credential variable is set to the empty string
C4_Witness ==
    /\ InSearch
    /\ Len(fetches) = 2
    /\ fetches[1].source_id = "freepik"
    /\ fetches[2].source_id = "pexels"
    /\ "PEXELS_API_KEY" \in DOMAIN env
    /\ env["PEXELS_API_KEY"] = <<>>
    /\ "limit" \in args.given

\* the block the loop body makes of one pass, taken alone
ExpectedBlock(fetch) ==
    IF Truthy(fetch.data)
    THEN format_api_results(fetch.source_id, fetch.data, SearchQuery).block
    ELSE web_link_block(fetch.source_id, SearchQuery)

\* the payload of a pass holds, among the items that are displayed, one that lacks
\* a required field
HasMissingField(fetch) ==
    /\ fetch.data.kind = "list"
    /\ \E k \in 1..Min(DisplayCap, Len(fetch.data.items)) : fetch.data.items[k].shape = "missing"

\* C5: in a search (over distinct sources) that has received a payload with an item
\* lacking a required field, the call has not raised, that source's block is an API
\* block with the inline error note, every other block is the one its own pass
\* makes, and the finished result ends with the summary.
C5_MissingFieldKeepsOtherBlocks ==
    (InSearch /\ DistinctSources /\ \E i \in 1..Len(fetches) : HasMissingField(fetches[i])) =>
        /\ pc # "raised"
        /\ \A i \in 1..Len(fetches) :
              /\ results[i + 1] = ExpectedBlock(fetches[i])
              /\ HasMissingField(fetches[i]) =>
                    /\ results[i + 1].kind = "api"
                    /\ results[i + 1].error = "KeyError"
        /\ pc = "done" => results[Len(results)].kind = "summary"

\* C6: a search with a non-empty query never raises.
C6_SearchNeverRaises ==
    (InSearch /\ SearchQuery # <<>>) => (pc # "raised" /\ exc = "none")

ExactIds(uri) == {id \in DOMAIN STOCK_IMAGE_SOURCES : uri = UriScheme \o IdChars(id)}

\* C8: handle_read_resource returns the page of source s exactly when the URI is
\* "stock-images://" followed by the id of s; on every other URI it raises.
C8_ResolvesExactlyRegisteredUris ==
    (op = "handle_read_resource") =>
        /\ ExactIds(args.uri) # {} =>
              /\ pc = "done"
              /\ Len(results) = 1
              /\ results[1].source_id \in ExactIds(args.uri)
        /\ ExactIds(args.uri) = {} =>
              /\ pc = "raised"
              /\ exc = "ValueError"
              /\ results = <<>>

\* C9: the URL of a web-link block is the source's base_url followed by the
\* percent-encoded query: unreserved characters unchanged, no literal space, no
\* literal reserved character.
C9_WebLinkUrlIsPercentEncoded ==
    (op = "web_link") =>
        LET base == STOCK_IMAGE_SOURCES[args.source_id].base_url
            url == results[1].search_url
            tail == SubSeq(url, Len(base) + 1, Len(url))
        IN /\ StartsWith(url, base)
           /\ results[1].link_url = url
           /\ Range(args.query) \subseteq AlwaysSafe => tail = args.query
           /\ " " \notin Range(tail)
           /\ Range(tail) \cap Reserved = {}

\* a credential is configured for the source of a status entry
Configured(source_id) ==
    LET source == STOCK_IMAGE_SOURCES[source_id] IN
    /\ source.api_url # None
    /\ source.api_key_env \in DOMAIN env
    /\ env[source.api_key_env] # <<>>

\* C10: for every source with a configured credential the status report shows the
\* first n characters of the credential followed by a fixed placeholder, with n at
\* most 8 and less than the credential's length; a credential of 8 characters or
\* fewer is shown as the fixed mask alone.
C10_StatusRevealsOnlyKeyPrefix ==
    (op = "check_api_status" /\ pc = "done") =>
        \A i \in 1..Len(results[1].entries) :
            LET e == results[1].entries[i] IN
            Configured(e.source_id) =>
                LET k == env[STOCK_IMAGE_SOURCES[e.source_id].api_key_env] IN
                /\ e.key = "configured"
                /\ \E n \in 0..8 :
                      /\ n < Len(k)
                      /\ e.masked_key \in {SubSeq(k, 1, n) \o <<".", ".", ".">>,
                                           SubSeq(k, 1, n) \o <<"*", "*", "*">>}
                /\ Len(k) <= 8 => e.masked_key = <<"*", "*", "*">>
                /\ Len(k) > 8 => e.masked_key = SubSeq(k, 1, 8) \o <<".", ".", ".">>

\* C10: a report under an environment with a credential of exactly 8 characters and
\* a longer one
C10_Witness ==
    /\ op = "check_api_status"
    /\ pc = "done"
    /\ "UNSPLASH_ACCESS_KEY" \in DOMAIN env
    /\ Len(env["UNSPLASH_ACCESS_KEY"]) = 8
    /\ "PEXELS_API_KEY" \in DOMAIN env
    /\ Len(env["PEXELS_API_KEY"]) = 10
    /\ results[1].entries[1].masked_key = <<"*", "*", "*">>
    /\ Len(results[1].entries[2].masked_key) = 11

\* the maximum page size the specification gives each source
StatedMaximum(source_id) ==
    CASE source_id = "unsplash" -> 30
      [] source_id = "pexels"   -> 80
      [] source_id = "pixabay"  -> 200
      [] OTHER                  -> 20

\* the limit the running search passes to make_api_request (line 343)
SearchLimit == ArgLimit(SearchArgs)

\* every GET a search sends carries min(limit, the source's maximum), which is never
\* above that maximum
PageSizeIsClamped ==
    InSearch =>
        \A i \in 1..Len(SentRequests) :
            LET r == SentRequests[i] IN
            /\ r.per_page = Min(SearchLimit, StatedMaximum(r.source_id))
            /\ r.per_page <= StatedMaximum(r.source_id)

\* C11: the page size of every GET that make_api_request sends is the requested limit
\* clamped to the source's maximum (30 unsplash, 80 pexels, 200 pixabay, 20 otherwise),
\* and it is a positive integer not above that maximum.
C11_PageSizeIsClampedAndPositive ==
    InSearch =>
        \A i \in 1..Len(SentRequests) :
            LET r == SentRequests[i] IN
            /\ r.per_page = Min(SearchLimit, StatedMaximum(r.source_id))
            /\ r.per_page \in 1..StatedMaximum(r.source_id)

\* format_api_results has returned a block for a payload with an item list
FormattedList ==
    /\ op = "format_api_results"
    /\ pc = "done"
    /\ args.api_data.kind = "list"

\* the positions, among the first five of an item list, of the items that lack a
\* field their source's rule requires
LackingAmongFirstFive(items) ==
    {i \in 1..Min(5, Len(items)) : items[i].shape = "missing"}

\* the least element of a non-empty set of numbers
Least(S) == CHOOSE m \in S : \A n \in S : m <= n

\* C12 as stated: a block that format_api_results returns for a payload list of n
\* items renders min(5, n) items, the first ones of the list, numbered from 1 in
\* payload order.
C12_RendersMinFiveOrAll ==
    FormattedList =>
        LET items == args.api_data.items
            shown == results[1].items
        IN /\ Len(shown) = Min(5, Len(items))
           /\ \A i \in 1..Len(shown) : shown[i].n = i /\ shown[i].id = items[i].id

\* C12: a block that format_api_results returns for a payload list of n items renders
\* the first min(5, n) items, numbered from 1 in payload order, when each of them
\* carries the fields its source requires; when one of them lacks a required field,
\* it renders only the items before the first such item, numbered the same way, and
\* carries the parse-error note after whatever lines of that item's entry preceded
\* the failing lookup. It never renders more than 5 items.
C12_RendersFirstItemsUpToFive ==
    FormattedList =>
        LET items == args.api_data.items
            shown == results[1].items
            lacking == LackingAmongFirstFive(items)
        IN /\ Len(shown) <= 5
           /\ lacking = {} =>
                 /\ Len(shown) = Min(5, Len(items))
                 /\ results[1].error = "none"
                 /\ results[1].cut = 0
           /\ lacking # {} =>
                 /\ Len(shown) = Least(lacking) - 1
                 /\ results[1].error = "KeyError"
                 /\ results[1].cut = Least(lacking)
           /\ \A i \in 1..Len(shown) : shown[i].n = i /\ shown[i].id = items[i].id

\* C12: a block for a payload list of six well-formed items, five of them rendered
C12_Witness ==
    /\ FormattedList
    /\ Len(args.api_data.items) = 6
    /\ LackingAmongFirstFive(args.api_data.items) = {}
    /\ Len(results[1].items) = 5
    /\ results[1].items[5].n = 5

\* one call of make_api_request sends at most one GET, and a search over distinct
\* ids sends at most one GET per source
OneRequestPerCall ==
    InSearch =>
        /\ \A i \in 1..Len(fetches) : Len(fetches[i].sent) <= 1
        /\ DistinctSources =>
              \A i, j \in 1..Len(SentRequests) :
                  SentRequests[i].source_id = SentRequests[j].source_id => i = j

\* C13: one search sends at most one GET per source, whatever sources list it was
\* given (a list naming an id twice included), and a pass whose request failed is
\* never followed by a pass that sends a request for the same source.
C13_AtMostOneRequestPerSource ==
    InSearch =>
        /\ \A i, j \in 1..Len(SentRequests) :
              SentRequests[i].source_id = SentRequests[j].source_id => i = j
        /\ \A i, j \in 1..Len(fetches) :
              ( /\ i < j
                /\ fetches[i].response.kind \in Failures
                /\ fetches[j].source_id = fetches[i].source_id )
                  => fetches[j].sent = <<>>

\* the blocks of a finished search between its header and its summary
SourceBlocks == SubSeq(results, 2, Len(results) - 1)

\* the summary of a finished search
Summary == results[Len(results)]

\* the ids a line of the summary lists; a line that is left out lists none
Listed(line) == IF line = <<>> THEN <<>> ELSE line[1].ids

\* the summary lists every block's source in the list of the path that made the
\* block and not in the other one, and the two lists together are as long as the
\* sequence of blocks
SummaryListsFollowBlocks ==
    (InSearch /\ pc = "done" /\ SearchQuery # <<>> /\ DistinctSources) =>
        /\ \A i \in 1..Len(SourceBlocks) :
              LET b == SourceBlocks[i] IN
              /\ b.kind = "api" => /\ b.source_id \in Range(Listed(Summary.api_line))
                                   /\ b.source_id \notin Range(Listed(Summary.web_line))
              /\ b.kind = "web" => /\ b.source_id \in Range(Listed(Summary.web_line))
                                   /\ b.source_id \notin Range(Listed(Summary.api_line))
        /\ Len(Listed(Summary.api_line)) + Len(Listed(Summary.web_line)) = Len(SourceBlocks)

\* C14: in the result of a search (over distinct ids) with a non-empty query, the
\* summary lists every per-source block's source in exactly one of its two lists,
\* the one of the path that made the block, and its total source count equals the
\* number of per-source blocks, which is the number of API sources plus the number
\* of web-link sources, also when unknown ids were requested.
C14_SummaryCountsTheBlocks ==
    (InSearch /\ pc = "done" /\ SearchQuery # <<>> /\ DistinctSources) =>
        /\ \A i \in 1..Len(SourceBlocks) :
              LET b == SourceBlocks[i] IN
              /\ b.kind = "api" => /\ b.source_id \in Range(Listed(Summary.api_line))
                                   /\ b.source_id \notin Range(Listed(Summary.web_line))
              /\ b.kind = "web" => /\ b.source_id \in Range(Listed(Summary.web_line))
                                   /\ b.source_id \notin Range(Listed(Summary.api_line))
        /\ Summary.total = Len(SourceBlocks)
        /\ Summary.total = Len(Listed(Summary.api_line)) + Len(Listed(Summary.web_line))

=============================================================================
